---------------------------- MODULE Spec2Model ----------------------------
(***************************************************************************)
(* Model of rdp_api: the Entity Store (rdp/crud/crud.py, class Crud) and   *)
(* the sensor Reader (rdp/sensor/reader.py) that seeds the store, runs a   *)
(* polling thread and writes one Value per decoded frame.                  *)
(*                                                                         *)
(* Tables.  Device and Location rows are only ever inserted without an id  *)
(* (crud.py:139, crud.py:202), so the database assigns 1, 2, 3, ... and a  *)
(* table is a sequence whose index is the row id.  ValueType rows are      *)
(* inserted with the caller's id (crud.py:41), so that table is a function *)
(* from the ids in use.  Value rows are appended by add_value.             *)
(*                                                                         *)
(* Python arguments that the code compares with, or stores into, integer   *)
(* columns are kept with their Python type: <<"none">>, <<"int", n>> or    *)
(* <<"str", s>> (reader.py:19-26 passes ids as strings).                   *)
(***************************************************************************)
EXTENDS Integers, Sequences, FiniteSets, TLC

VARIABLES
    valueTypes,  \* table value_type: [ids in use -> [type_name, type_unit]]
    devices,     \* table device: sequence of rows, index = id
    locations,   \* table location: sequence of rows, index = id
    values,      \* table value: sequence of rows, index = id
    thread,      \* Reader._thread: 0 (None) or the id of a polling thread
    tpc,         \* per polling thread: where it is in Reader._run
    texc,        \* per polling thread: the exception that ended it, or "none"
    cpc,         \* the caller of Reader.start / Reader.stop: where it is
    seedIdx,     \* in start(): the next seeding call (1..7)
    cjoin,       \* in stop(): the local variable `thread`
    cexc,        \* the exception the last start()/stop() call raised, or "none"
    nstarts,     \* how many polling threads have been created
    call         \* per process: the Crud call it has in flight

vars == <<valueTypes, devices, locations, values, thread, tpc, texc,
          cpc, seedIdx, cjoin, cexc, nstarts, call>>

readerVars == <<thread, tpc, texc, cpc, seedIdx, cjoin, cexc, nstarts>>

------------------------------------------------------------------------------
(* Bounds of the model *)

\* polling threads that start() may create in one run
MaxStarts == 2
\* Value rows after which frame sources and callers only repeat stored keys
MaxValues == 1
\* external callers of add_value beside the polling thread (IngestSpec)
MaxCalls == 1
\* concurrent external callers of the store alone (StoreSpec)
NumCallers == 3

\* a call without an id adds a ValueType row only while fewer are stored (SerialSpec)
MaxTypes == 2
\* a call adds a Device row only while fewer are stored (SerialSpec)
MaxDevices == 4

\* Value rows in the tables get_values is run on (QuerySpec)
MaxQueryRows == 3

\* Python's None, as the value of Reader._thread
None == 0
\* SQL NULL in an integer column or parameter (no row id is 0)
Null == 0

PyNone == <<"none">>
PyInt(n) == <<"int", n>>
PyStr(s) == <<"str", s>>

\* Python truthiness of an argument (`if device_name:`, `if location_id:`)
Truthy(a) ==
    CASE a[1] = "none" -> FALSE
      [] a[1] = "int"  -> a[2] # 0
      [] a[1] = "str"  -> a[2] # ""

DigitVal == [s \in {"0", "1", "2", "3", "4", "5", "6", "7", "8", "9"} |->
               CASE s = "0" -> 0 [] s = "1" -> 1 [] s = "2" -> 2 [] s = "3" -> 3
                 [] s = "4" -> 4 [] s = "5" -> 5 [] s = "6" -> 6 [] s = "7" -> 7
                 [] s = "8" -> 8 [] s = "9" -> 9]

\* What SQLite makes of a bound parameter compared with, or stored into, an
\* INTEGER column: an int is itself, a numeric string is converted (column
\* affinity), NULL matches nothing.
SqlInt(a) ==
    CASE a[1] = "none" -> Null
      [] a[1] = "int"  -> a[2]
      [] a[1] = "str"  -> IF a[2] \in DOMAIN DigitVal THEN DigitVal[a[2]] ELSE Null


------------------------------------------------------------------------------
(* Crud.add_or_update_value_type, crud.py:35-52.  The SELECT (line 36-39)  *)
(* and the commit (line 51) are separate moments: another session may      *)
(* commit between them.                                                    *)

\* a faulty variant: the placeholder lacks the id
PlaceholderBare(prefix, id) ==
    IF id[1] = "int" THEN prefix ELSE "TypeError"

\* "TYPE_%d" % value_type_id: %d needs a number
Placeholder(prefix, id) ==
    IF id[1] = "int" THEN prefix \o ToString(id[2]) ELSE "TypeError"

\* lines 36-39: the rows the SELECT loads, <<>> or <<row>>
SelectValueType(vts, id) ==
    IF SqlInt(id) \in DOMAIN vts THEN <<vts[SqlInt(id)]>> ELSE <<>>

\* a faulty variant: an omitted name or unit is reset to the placeholder
PendingValueTypeReset(snap, id, name, unit) ==
    LET n == IF name # "" THEN name ELSE Placeholder("TYPE_", id)
        u == IF unit # "" THEN unit ELSE Placeholder("UNIT_", id)
    IN  [exc |-> IF n = "TypeError" \/ u = "TypeError" THEN "TypeError" ELSE "none",
         type_name |-> n, type_unit |-> u]

\* lines 40-49: the object after the Python-side assignments; exc is
\* "TypeError" when a placeholder is needed and the id is no number.  A new
\* object's type_name and type_unit are None (written "").
PendingValueType(snap, id, name, unit) ==
    LET old == IF snap = <<>> THEN [type_name |-> "", type_unit |-> ""] ELSE snap[1]
        n == IF name # "" THEN name
             ELSE IF old.type_name = "" THEN Placeholder("TYPE_", id)
             ELSE old.type_name
        u == IF unit # "" THEN unit
             ELSE IF old.type_unit = "" THEN Placeholder("UNIT_", id)
             ELSE old.type_unit
    IN  [exc |-> IF n = "TypeError" \/ u = "TypeError" THEN "TypeError" ELSE "none",
         type_name |-> n, type_unit |-> u]

\* the id a row inserted without one gets
NextTypeId(vts) ==
    IF DOMAIN vts = {} THEN 1
    ELSE (CHOOSE m \in DOMAIN vts : \A k \in DOMAIN vts : k <= m) + 1

\* a faulty variant: the new ValueType is never committed
CommitValueTypeLost(vts, snap, id, obj) ==
    LET key == IF SqlInt(id) = Null THEN NextTypeId(vts) ELSE SqlInt(id)
    IN  [vts |-> vts, result |-> "ok", key |-> key]

\* a faulty variant: a loaded object is inserted as a new row
CommitValueTypeFresh(vts, snap, id, obj) ==
    LET key == IF snap # <<>> \/ SqlInt(id) = Null THEN NextTypeId(vts)
               ELSE SqlInt(id)
    IN  IF key \in DOMAIN vts
        THEN [vts |-> vts, result |-> "IntegrityError", key |-> key]
        ELSE [vts |-> [k \in DOMAIN vts \cup {key} |->
                         IF k = key THEN obj ELSE vts[k]],
              result |-> "ok", key |-> key]

\* lines 50-51: session.add_all + commit.  An object that was not loaded is
\* INSERTed (the primary key rejects an id in use); a loaded one is UPDATEd
\* in the columns whose value differs from the loaded one.
CommitValueType(vts, snap, id, obj) ==
    LET key == IF SqlInt(id) = Null THEN NextTypeId(vts) ELSE SqlInt(id)
    IN  IF snap = <<>>
        THEN IF key \in DOMAIN vts
             THEN [vts |-> vts, result |-> "IntegrityError", key |-> key]
             ELSE [vts |-> [k \in DOMAIN vts \cup {key} |->
                              IF k = key THEN obj ELSE vts[k]],
                   result |-> "ok", key |-> key]
        ELSE [vts |-> [vts EXCEPT
                  ![key] = [type_name |-> IF obj.type_name # snap[1].type_name
                                          THEN obj.type_name ELSE @.type_name,
                            type_unit |-> IF obj.type_unit # snap[1].type_unit
                                          THEN obj.type_unit ELSE @.type_unit]],
              result |-> "ok", key |-> key]

------------------------------------------------------------------------------
(* Crud.add_value, crud.py:63-73 *)

\* the uniqueness key of a Value row: (device_id, value_type_id, time)
ValueKey(row) == <<row.device_id, row.value_type_id, row.time>>

\* the table's uniqueness constraint: a row with the same key is stored
UniqueConflict(vals, row) ==
    \E i \in DOMAIN vals : ValueKey(vals[i]) = ValueKey(row)

\* lines 66-73: the Value row is added and committed; IntegrityError is
\* logged and raised again
InsertValue(vals, row) ==
    IF UniqueConflict(vals, row)
    THEN [values |-> vals, result |-> "IntegrityError"]
    ELSE [values |-> Append(vals, row), result |-> "ok"]

------------------------------------------------------------------------------
(* Crud.get_value_type, crud.py:109-111 *)

\* select(ValueType).where(ValueType.id == value_type_id), .one(): the row,
\* or NoResultFound when there is none
GetValueType(vts, id) ==
    IF SqlInt(id) \in DOMAIN vts
    THEN [rows |-> <<[id |-> SqlInt(id), type_name |-> vts[SqlInt(id)].type_name,
                      type_unit |-> vts[SqlInt(id)].type_unit]>>,
          result |-> "ok"]
    ELSE [rows |-> <<>>, result |-> "NoResultFound"]

------------------------------------------------------------------------------
(* Crud.get_values, crud.py:90-99 *)

\* the sequences that hold every element of S once
Orders(S) ==
    {o \in [1..Cardinality(S) -> S] : \A a, b \in DOMAIN o : a # b => o[a] # o[b]}

\* a faulty variant: the end of the time range is ignored
GetValuesRowsOpenEnd(vals, vts, type_id, start, end) ==
    LET byType == IF type_id = PyNone THEN DOMAIN vals
                  ELSE {i \in DOMAIN vals :
                          /\ vals[i].value_type_id \in DOMAIN vts
                          /\ vals[i].value_type_id = SqlInt(type_id)}
    IN  IF start = PyNone THEN byType
        ELSE {i \in byType : vals[i].time >= SqlInt(start)}

\* lines 91-97: the ids of the rows the statement selects.  Each supplied
\* argument (`is not None`) adds a condition: the type joins the Value with
\* its ValueType and compares that id, start and end bound the time.
GetValuesRows(vals, vts, type_id, start, end) ==
    LET byType == IF type_id = PyNone THEN DOMAIN vals
                  ELSE {i \in DOMAIN vals :
                          /\ vals[i].value_type_id \in DOMAIN vts
                          /\ vals[i].value_type_id = SqlInt(type_id)}
        byStart == IF start = PyNone THEN byType
                   ELSE {i \in byType : vals[i].time >= SqlInt(start)}
    IN  IF end = PyNone THEN byStart
        ELSE {i \in byStart : vals[i].time <= SqlInt(end)}

\* line 98: order_by(Value.time); rows of equal time come in any order
OrderByTime(vals, S) ==
    {o \in Orders(S) : \A a, b \in DOMAIN o : a < b => vals[o[a]].time <= vals[o[b]].time}

\* line 99: the list returned, for one such order
ValueList(vals, o) ==
    [j \in DOMAIN o |-> [id |-> o[j], time |-> vals[o[j]].time,
                         value |-> vals[o[j]].value,
                         value_type_id |-> vals[o[j]].value_type_id,
                         device_id |-> vals[o[j]].device_id]]

------------------------------------------------------------------------------
(* Crud.add_or_update_device, crud.py:135-149 *)

\* a faulty variant: only an int id is looked up, a string id finds nothing
SelectDeviceIntOnly(devs, id) ==
    IF id[1] = "int" /\ id[2] \in DOMAIN devs THEN <<id[2]>> ELSE <<>>

\* lines 136-137: the row with this id, <<>> or <<id>>
SelectDevice(devs, id) ==
    IF SqlInt(id) \in DOMAIN devs THEN <<SqlInt(id)>> ELSE <<>>

AddOrUpdateDevice(devs, name, desc, loc, id) ==
    LET found == SelectDevice(devs, id)
        old == IF found = <<>>
               THEN [device_name |-> name, device_description |-> desc,
                     location_id |-> SqlInt(loc)]
               ELSE devs[found[1]]
        new == [device_name |-> IF name # "" THEN name ELSE old.device_name,
                device_description |-> IF desc # "" THEN desc
                                       ELSE old.device_description,
                location_id |-> IF Truthy(loc) THEN SqlInt(loc)
                                ELSE old.location_id]
    IN  IF found = <<>>
        THEN [devices |-> Append(devs, new), ret |-> Len(devs) + 1]
        ELSE [devices |-> [devs EXCEPT ![found[1]] = new], ret |-> found[1]]

------------------------------------------------------------------------------
(* Crud.add_or_update_location, crud.py:198-210 *)

\* line 199: select(Location).where(Device.id == location_id) joins every
\* Location row with the Device rows of that id: all Location ids when such
\* a Device exists, none otherwise.  first() takes one of them.
SelectLocation(locs, devs, id) ==
    IF SqlInt(id) \in DOMAIN devs THEN DOMAIN locs ELSE {}

\* lines 201-210, `pick` being the row first() returned.  Lines 204 and 206
\* assign device_name / device_description, which are no columns of
\* Location: a loaded row is written back unchanged.
AddOrUpdateLocation(locs, devs, name, desc, id, pick) ==
    IF SelectLocation(locs, devs, id) = {}
    THEN [locations |-> Append(locs, [location_name |-> name,
                                      location_description |-> desc]),
          ret |-> Len(locs) + 1]
    ELSE [locations |-> locs, ret |-> pick]

------------------------------------------------------------------------------
(* Frame decoding, reader.py:44-51 *)

\* Python's integers have no width.  A non-negative one below 2^64 is kept
\* as its four base-65536 digits, least significant first.
WideZero == [k \in 1..4 |-> 0]

\* a | b on non-negative integers
RECURSIVE BitOr(_, _)
BitOr(a, b) ==
    IF a = 0 THEN b
    ELSE IF b = 0 THEN a
    ELSE (IF a % 2 = 1 \/ b % 2 = 1 THEN 1 ELSE 0) + 2 * BitOr(a \div 2, b \div 2)

\* x | y, digit by digit
WideOr(x, y) == [k \in 1..4 |-> BitOr(x[k], y[k])]

\* a faulty variant: the byte lands in the other half of its 16 bits
ShiftByteSwapped(byte, i) ==
    [k \in 1..4 |-> IF k = (i \div 2) + 1
                    THEN byte * (IF i % 2 = 1 THEN 1 ELSE 256)
                    ELSE 0]

\* byte << 8 * i, for i in 0..7
ShiftByte(byte, i) ==
    [k \in 1..4 |-> IF k = (i \div 2) + 1
                    THEN byte * (IF i % 2 = 1 THEN 256 ELSE 1)
                    ELSE 0]

\* value = 0; for i in range(n): value |= test[i + off] << 8 * i
\* (test is indexed from 1 here)
RECURSIVE OrShift(_, _, _)
OrShift(test, off, n) ==
    IF n = 0 THEN WideZero
    ELSE WideOr(OrShift(test, off, n - 1), ShiftByte(test[off + n], n - 1))

\* the integer of four digits, for the values the tables of the model hold
\* (below 2^31)
WideInt(x) == x[1] + 65536 * (x[2] + 65536 * (x[3] + 65536 * x[4]))

\* the n bytes of `test` from offset `off` as one integer
LittleEndian(test, off, n) == WideInt(OrShift(test, off, n))

\* lines 44-46
DecodeTime(test) == LittleEndian(test, 0, 8)
\* lines 47-49
DecodeType(test) == LittleEndian(test, 8, 4)
\* line 51: struct.unpack("f", test[-4::]); the float is kept as the 32 bits
\* of its last four bytes (least significant byte first)
DecodeValue(test) == LittleEndian(test, Len(test) - 4, 4)

\* the 16-byte frames the device source may yield: (time 1, type 1, 1.0f)
\* and (time 258, type 2, 1.0f)
Frames ==
    { <<1, 0, 0, 0, 0, 0, 0, 0,   1, 0, 0, 0,   0, 0, 128, 63>>,
      <<2, 1, 0, 0, 0, 0, 0, 0,   2, 0, 0, 0,   0, 0, 128, 63>> }

\* reads of fewer than 16 bytes: 0, 8, 12 and 15 bytes
ShortFrames ==
    { <<>>,
      <<3, 0, 0, 0, 0, 0, 0, 0>>,
      <<3, 0, 0, 0, 0, 0, 0, 0,   1, 0, 0, 0>>,
      <<3, 0, 0, 0, 0, 0, 0, 0,   2, 0, 0, 0,   0, 0, 1>> }

------------------------------------------------------------------------------
(* Processes and the Crud call each has in flight *)

Threads == 1..MaxStarts
Callers == 1..(IF NumCallers > MaxCalls THEN NumCallers ELSE MaxCalls)
Procs == ({"t"} \X Threads) \cup ({"c"} \X Callers)

NoCall ==
    [op |-> "none", pc |-> "idle", id |-> PyNone, name |-> "", unit |-> "",
     loc |-> PyNone, time |-> 0, value |-> 0, device |-> 0,
     snap |-> <<>>, obj |-> [type_name |-> "", type_unit |-> ""], key |-> 0,
     result |-> "none", ret |-> 0, rows |-> <<>>,
     start |-> PyNone, end |-> PyNone, frame |-> <<>>]

\* add_value(value_time, value_type, value_value, device_id) just entered
AddValueCall(time, type, value, device) ==
    [NoCall EXCEPT !.op = "add_value", !.pc = "vt_select", !.id = PyInt(type),
                   !.time = time, !.value = value, !.device = device]

\* add_or_update_value_type(value_type_id, value_type_name, value_type_unit)
UpsertValueTypeCall(id, name, unit) ==
    [NoCall EXCEPT !.op = "upsert_value_type", !.pc = "vt_select", !.id = id,
                   !.name = name, !.unit = unit]

\* add_or_update_device(device_name, device_description, location_id, device_id)
UpsertDeviceCall(name, desc, loc, id) ==
    [NoCall EXCEPT !.op = "upsert_device", !.pc = "dev", !.id = id,
                   !.name = name, !.unit = desc, !.loc = loc]

\* add_or_update_location(location_name, location_description, location_id)
UpsertLocationCall(name, desc, id) ==
    [NoCall EXCEPT !.op = "upsert_location", !.pc = "loc", !.id = id,
                   !.name = name, !.unit = desc]

\* get_value_type(value_type_id)
GetValueTypeCall(id) ==
    [NoCall EXCEPT !.op = "get_value_type", !.pc = "get_vt", !.id = id]

\* get_values(value_type_id, start, end)
GetValuesCall(type_id, start, end) ==
    [NoCall EXCEPT !.op = "get_values", !.pc = "get_vals", !.id = type_id,
                   !.start = start, !.end = end]

\* the Value row add_value builds (crud.py:66)
ValueRow(c) ==
    [time |-> c.time, value |-> c.value, value_type_id |-> c.key,
     device_id |-> c.device]

\* the record of a call after a step: a polling thread keeps only the outcome
\* of a call that has returned (its locals die with the with-block), an
\* external caller keeps the arguments it called with
Land(p, c) ==
    IF p[1] = "t" /\ c.pc = "done"
    THEN [NoCall EXCEPT !.result = c.result]
    ELSE c

\* crud.py:36-49 (in add_value: line 65, with no name and no unit)
StepVtSelect(p) ==
    /\ call[p].pc = "vt_select"
    /\ LET snap == SelectValueType(valueTypes, call[p].id)
           obj == PendingValueType(snap, call[p].id, call[p].name, call[p].unit)
       IN  call' = [call EXCEPT ![p] = Land(p,
                IF obj.exc # "none"
                THEN [@ EXCEPT !.pc = "done", !.result = obj.exc]
                ELSE [@ EXCEPT !.pc = "vt_commit", !.snap = snap,
                               !.obj = [type_name |-> obj.type_name,
                                        type_unit |-> obj.type_unit]])]
    /\ UNCHANGED <<valueTypes, devices, locations, values>>

\* crud.py:50-52; add_value goes on to its own commit when this one succeeded
StepVtCommit(p) ==
    /\ call[p].pc = "vt_commit"
    /\ LET r == CommitValueType(valueTypes, call[p].snap, call[p].id, call[p].obj)
       IN  /\ valueTypes' = r.vts
           /\ call' = [call EXCEPT ![p] = Land(p,
                IF r.result # "ok"
                THEN [@ EXCEPT !.pc = "done", !.result = r.result]
                ELSE IF @.op = "add_value"
                THEN [@ EXCEPT !.pc = "insert", !.key = r.key]
                ELSE [@ EXCEPT !.pc = "done", !.result = "ok", !.key = r.key,
                               !.ret = r.key])]
    /\ UNCHANGED <<devices, locations, values>>

\* crud.py:66-73
StepInsert(p) ==
    /\ call[p].pc = "insert"
    /\ LET r == InsertValue(values, ValueRow(call[p]))
       IN  /\ values' = r.values
           /\ call' = [call EXCEPT ![p] = Land(p, [@ EXCEPT !.pc = "done",
                                                            !.result = r.result])]
    /\ UNCHANGED <<valueTypes, devices, locations>>

\* crud.py:135-149, one transaction
StepDevice(p) ==
    /\ call[p].pc = "dev"
    /\ LET r == AddOrUpdateDevice(devices, call[p].name, call[p].unit,
                                  call[p].loc, call[p].id)
       IN  /\ devices' = r.devices
           /\ call' = [call EXCEPT ![p] = [@ EXCEPT !.pc = "done", !.result = "ok",
                                                    !.ret = r.ret]]
    /\ UNCHANGED <<valueTypes, locations, values>>

\* crud.py:198-210, one transaction
StepLocation(p) ==
    /\ call[p].pc = "loc"
    /\ \E pick \in SelectLocation(locations, devices, call[p].id) \cup {0} :
         /\ pick = 0 <=> SelectLocation(locations, devices, call[p].id) = {}
         /\ LET r == AddOrUpdateLocation(locations, devices, call[p].name,
                                         call[p].unit, call[p].id, pick)
            IN  /\ locations' = r.locations
                /\ call' = [call EXCEPT ![p] = [@ EXCEPT !.pc = "done",
                                                  !.result = "ok", !.ret = r.ret]]
    /\ UNCHANGED <<valueTypes, devices, values>>

\* crud.py:109-111
StepGetValueType(p) ==
    /\ call[p].pc = "get_vt"
    /\ LET r == GetValueType(valueTypes, call[p].id)
       IN  call' = [call EXCEPT ![p] = [@ EXCEPT !.pc = "done", !.result = r.result,
                                                 !.rows = r.rows]]
    /\ UNCHANGED <<valueTypes, devices, locations, values>>

\* crud.py:90-99, one SELECT
StepGetValues(p) ==
    /\ call[p].pc = "get_vals"
    /\ \E o \in OrderByTime(values, GetValuesRows(values, valueTypes, call[p].id,
                                                  call[p].start, call[p].end)) :
         call' = [call EXCEPT ![p] = [@ EXCEPT !.pc = "done", !.result = "ok",
                                               !.rows = ValueList(values, o)]]
    /\ UNCHANGED <<valueTypes, devices, locations, values>>

\* one step of the add_value or add_or_update_value_type call of process p
TypeValueStep(p) ==
    \/ StepVtSelect(p)
    \/ StepVtCommit(p)
    \/ StepInsert(p)

------------------------------------------------------------------------------
(* Reader.start and Reader.stop, reader.py:18-33 *)

\* a faulty variant: no Location and no Device is seeded
NoSeeds == <<>>

\* lines 19-26: the seeding calls, in order
Seeds ==
    << [kind |-> "location", name |-> "Location 1", desc |-> "First Location",
        loc |-> PyNone, id |-> PyStr("1")],
       [kind |-> "location", name |-> "Location 2", desc |-> "Second Location",
        loc |-> PyNone, id |-> PyStr("2")],
       [kind |-> "location", name |-> "Location 3", desc |-> "Third Location",
        loc |-> PyNone, id |-> PyStr("3")],
       [kind |-> "device", name |-> "Device 1", desc |-> "First Device",
        loc |-> PyStr("1"), id |-> PyStr("1")],
       [kind |-> "device", name |-> "Device 2", desc |-> "Second Device",
        loc |-> PyStr("2"), id |-> PyStr("2")],
       [kind |-> "device", name |-> "Device 3", desc |-> "Third Device",
        loc |-> PyStr("2"), id |-> PyStr("3")],
       [kind |-> "device", name |-> "Device 4", desc |-> "Fourth Device",
        loc |-> PyStr("3"), id |-> PyStr("4")] >>

\* start() is entered
StartCall ==
    /\ cpc = "idle"
    /\ nstarts < MaxStarts
    /\ cpc' = IF Len(Seeds) = 0 THEN "launch" ELSE "seed"
    /\ seedIdx' = 1
    /\ cexc' = "none"
    /\ UNCHANGED <<valueTypes, devices, locations, values, thread, tpc, texc,
                   cjoin, nstarts, call>>

\* lines 19-26: one seeding call, a whole Crud transaction
StartSeed ==
    /\ cpc = "seed"
    /\ LET sd == Seeds[seedIdx]
       IN  IF sd.kind = "location"
           THEN /\ \E pick \in SelectLocation(locations, devices, sd.id) \cup {0} :
                     /\ pick = 0 <=> SelectLocation(locations, devices, sd.id) = {}
                     /\ locations' = AddOrUpdateLocation(locations, devices, sd.name,
                                         sd.desc, sd.id, pick).locations
                /\ UNCHANGED devices
           ELSE /\ devices' = AddOrUpdateDevice(devices, sd.name, sd.desc, sd.loc,
                                                sd.id).devices
                /\ UNCHANGED locations
    /\ seedIdx' = seedIdx + 1
    /\ cpc' = IF seedIdx = Len(Seeds) THEN "launch" ELSE "seed"
    /\ UNCHANGED <<valueTypes, values, thread, tpc, texc, cjoin, cexc, nstarts, call>>

\* lines 27-28: the thread is created, stored in self._thread and started
StartLaunch ==
    /\ cpc = "launch"
    /\ nstarts' = nstarts + 1
    /\ thread' = nstarts + 1
    /\ tpc' = [tpc EXCEPT ![nstarts + 1] = "top"]
    /\ cpc' = "idle"
    /\ UNCHANGED <<valueTypes, devices, locations, values, texc, seedIdx, cjoin,
                   cexc, call>>

\* lines 31-32: thread = self._thread; self._thread = None.  With no thread
\* stored, line 33 calls join on None: AttributeError.
StopRequest ==
    /\ cpc = "idle"
    /\ cjoin' = thread
    /\ thread' = None
    /\ cpc' = IF thread = None THEN "idle" ELSE "join"
    /\ cexc' = IF thread = None THEN "AttributeError" ELSE "none"
    /\ UNCHANGED <<valueTypes, devices, locations, values, tpc, texc, seedIdx,
                   nstarts, call>>

\* a faulty variant: stop() returns without waiting for the thread
StopNoJoin ==
    /\ cpc = "join"
    /\ cpc' = "idle"
    /\ UNCHANGED <<valueTypes, devices, locations, values, thread, tpc, texc,
                   seedIdx, cjoin, cexc, nstarts, call>>

\* line 33: thread.join() returns once that thread has ended
StopJoin ==
    /\ cpc = "join"
    /\ tpc[cjoin] = "dead"
    /\ cpc' = "idle"
    /\ UNCHANGED <<valueTypes, devices, locations, values, thread, tpc, texc,
                   seedIdx, cjoin, cexc, nstarts, call>>

------------------------------------------------------------------------------
(* Reader._run, reader.py:35-69 *)

\* the frame and device choices left to a polling thread or a caller once
\* MaxValues rows are stored: only keys that are stored already
WithinValues(time, type, device) ==
    \/ Len(values) < MaxValues
    \/ \E i \in DOMAIN values :
         ValueKey(values[i]) = <<device, type, time>>

\* a faulty variant: the loop runs on whatever self._thread holds, and ends
\* only once it has seen it None twice
PollTopDeaf(t) ==
    /\ tpc[t] = "top"
    /\ tpc' = [tpc EXCEPT ![t] = IF thread # None \/ call[<<"t", t>>].result = "ok"
                                 THEN "read" ELSE "dead"]
    /\ UNCHANGED <<valueTypes, devices, locations, values, thread, texc, cpc,
                   seedIdx, cjoin, cexc, nstarts, call>>

\* line 37: while self._thread is not None
PollTop(t) ==
    /\ tpc[t] = "top"
    /\ tpc' = [tpc EXCEPT ![t] = IF thread # None THEN "read" ELSE "dead"]
    /\ UNCHANGED <<valueTypes, devices, locations, values, thread, texc, cpc,
                   seedIdx, cjoin, cexc, nstarts, call>>

\* lines 39-61: f.read(16) yields a frame `test` of up to 16 bytes, one of
\* `frames`.  test[i] for i < 8 and test[i + 8] for i < 4 (lines 46, 49)
\* raise IndexError on fewer than 12 bytes; test[-4::] (line 51) is then the
\* last four bytes, whatever the length.  A device is chosen among
\* get_devices() (random.choice of an empty list raises IndexError) and
\* add_value is entered.  An exception other than IntegrityError ends the
\* thread.
PollReadFrom(t, frames) ==
    /\ tpc[t] = "read"
    /\ \E test \in frames :
         IF Len(test) < 12 \/ Len(devices) = 0
         THEN /\ tpc' = [tpc EXCEPT ![t] = "dead"]
              /\ texc' = [texc EXCEPT ![t] = "IndexError"]
              /\ call' = [call EXCEPT ![<<"t", t>>] = [NoCall EXCEPT !.frame = test]]
         ELSE \E random_device \in DOMAIN devices :
              /\ WithinValues(DecodeTime(test), DecodeType(test), random_device)
              /\ call' = [call EXCEPT ![<<"t", t>>] =
                            [AddValueCall(DecodeTime(test), DecodeType(test),
                                          DecodeValue(test), random_device)
                               EXCEPT !.frame = test]]
              /\ tpc' = [tpc EXCEPT ![t] = "store"]
              /\ UNCHANGED texc
    /\ UNCHANGED <<valueTypes, devices, locations, values, thread, cpc, seedIdx,
                   cjoin, cexc, nstarts>>

\* the device yields whole frames
PollRead(t) == PollReadFrom(t, Frames)

\* a faulty variant: after IntegrityError the loop goes on
AfterAddValueContinue(result) ==
    IF result = "ok" THEN [pc |-> "top", exc |-> "none"]
    ELSE IF result = "IntegrityError" THEN [pc |-> "top", exc |-> "none"]
    ELSE [pc |-> "dead", exc |-> result]

\* lines 60-69: what the thread does with the outcome of add_value: on
\* success it sleeps and loops, on IntegrityError it breaks out of the loop
\* and returns, any other exception ends it unhandled
AfterAddValue(result) ==
    IF result = "ok" THEN [pc |-> "top", exc |-> "none"]
    ELSE IF result = "IntegrityError" THEN [pc |-> "dead", exc |-> "none"]
    ELSE [pc |-> "dead", exc |-> result]

\* line 61: the steps of add_value, and lines 62-69 once it has returned
PollStore(t) ==
    /\ tpc[t] = "store"
    /\ TypeValueStep(<<"t", t>>)
    /\ IF call'[<<"t", t>>].pc = "idle"
       THEN /\ tpc' = [tpc EXCEPT ![t] = AfterAddValue(call'[<<"t", t>>].result).pc]
            /\ texc' = [texc EXCEPT ![t] = AfterAddValue(call'[<<"t", t>>].result).exc]
       ELSE UNCHANGED <<tpc, texc>>
    /\ UNCHANGED <<thread, cpc, seedIdx, cjoin, cexc, nstarts>>

Poll(t) == PollTop(t) \/ PollRead(t) \/ PollStore(t)

------------------------------------------------------------------------------
(* External callers of the store (the request handlers of rdp/api/main.py  *)
(* and any other holder of the Crud object).  Each caller makes one call.  *)

ExtTimes == {1}
ExtTypes == {1}
ExtDevices == {1, 2}
TypeIdArgs == {PyInt(1), PyInt(2)}
TypeNames == {"", "A", "B"}
TypeUnits == {"", "U"}
DeviceIdArgs == {PyNone, PyInt(1), PyStr("2"), PyInt(7)}
DeviceNames == {"", "D"}
DeviceLocArgs == {PyNone, PyInt(2)}
LocationIdArgs == {PyNone, PyInt(1), PyInt(7)}
LocationNames == {"", "L"}
LocationDescs == {"", "M"}

\* a caller enters add_value for a device that exists
ExtAddValue(c) ==
    /\ call[<<"c", c>>].pc = "idle"
    /\ \E time \in ExtTimes, type \in ExtTypes,
          device \in ExtDevices \cap DOMAIN devices :
         /\ WithinValues(time, type, device)
         /\ call' = [call EXCEPT ![<<"c", c>>] = AddValueCall(time, type, 0, device)]
    /\ UNCHANGED <<valueTypes, devices, locations, values>>
    /\ UNCHANGED readerVars

\* a caller enters add_or_update_value_type (main.py:68)
ExtUpsertValueType(c) ==
    /\ call[<<"c", c>>].pc = "idle"
    /\ \E id \in TypeIdArgs, name \in TypeNames, unit \in TypeUnits :
         call' = [call EXCEPT ![<<"c", c>>] = UpsertValueTypeCall(id, name, unit)]
    /\ UNCHANGED <<valueTypes, devices, locations, values>>
    /\ UNCHANGED readerVars

\* a caller enters add_or_update_device
ExtUpsertDevice(c) ==
    /\ call[<<"c", c>>].pc = "idle"
    /\ \E id \in DeviceIdArgs, name \in DeviceNames, loc \in DeviceLocArgs :
         call' = [call EXCEPT ![<<"c", c>>] = UpsertDeviceCall(name, "", loc, id)]
    /\ UNCHANGED <<valueTypes, devices, locations, values>>
    /\ UNCHANGED readerVars

\* a caller enters add_or_update_location (main.py:218)
ExtUpsertLocation(c) ==
    /\ call[<<"c", c>>].pc = "idle"
    /\ \E id \in LocationIdArgs, name \in LocationNames, desc \in LocationDescs :
         call' = [call EXCEPT ![<<"c", c>>] = UpsertLocationCall(name, desc, id)]
    /\ UNCHANGED <<valueTypes, devices, locations, values>>
    /\ UNCHANGED readerVars

\* the next step of a caller's add_value or add_or_update_value_type
ExtTypeValueStep(c) ==
    /\ TypeValueStep(<<"c", c>>)
    /\ UNCHANGED readerVars

\* a caller's add_or_update_device
ExtDeviceStep(c) ==
    /\ StepDevice(<<"c", c>>)
    /\ UNCHANGED readerVars

\* a caller's add_or_update_location
ExtLocationStep(c) ==
    /\ StepLocation(<<"c", c>>)
    /\ UNCHANGED readerVars

------------------------------------------------------------------------------
(* Specification Spec: the Reader on an empty store, started and stopped   *)
(* in turn by one caller (main.py:223-242), each start() seeding the store *)
(* and launching a polling thread.                                         *)

Init ==
    /\ valueTypes = <<>>
    /\ devices = <<>>
    /\ locations = <<>>
    /\ values = <<>>
    /\ thread = None
    /\ tpc = [t \in Threads |-> "unborn"]
    /\ texc = [t \in Threads |-> "none"]
    /\ cpc = "idle"
    /\ seedIdx = 1
    /\ cjoin = None
    /\ cexc = "none"
    /\ nstarts = 0
    /\ call = [p \in Procs |-> NoCall]

\* the caller of the Reader: start() when it holds no thread, stop() when it
\* holds one
Lifecycle ==
    \/ (thread = None /\ StartCall)
    \/ StartSeed
    \/ StartLaunch
    \/ (thread # None /\ StopRequest)
    \/ StopJoin

Next ==
    \/ Lifecycle
    \/ \E t \in Threads : Poll(t)

Spec == Init /\ [][Next]_vars

\* the polling threads are scheduled and join() returns: a thread that can
\* take a step eventually takes one
FairSpec ==
    /\ Spec
    /\ \A t \in Threads : WF_vars(Poll(t))
    /\ WF_vars(StopJoin)

\* the tables after the seeding calls i..Len(Seeds) on locs and devs
RECURSIVE SeedFrom(_, _, _)
SeedFrom(locs, devs, i) ==
    IF i > Len(Seeds) THEN [locations |-> locs, devices |-> devs]
    ELSE LET sd == Seeds[i]
         IN  IF sd.kind = "location"
             THEN SeedFrom(AddOrUpdateLocation(locs, devs, sd.name, sd.desc, sd.id,
                      IF locs = <<>> THEN 0 ELSE 1).locations, devs, i + 1)
             ELSE SeedFrom(locs, AddOrUpdateDevice(devs, sd.name, sd.desc, sd.loc,
                                                   sd.id).devices, i + 1)

------------------------------------------------------------------------------
(* Specification IngestSpec: from the moment the first start() has         *)
(* returned (store seeded, polling thread launched) until stop() has       *)
(* returned, with MaxCalls external callers of add_value beside the        *)
(* polling thread.                                                         *)

IngestInit ==
    /\ valueTypes = <<>>
    /\ devices = SeedFrom(<<>>, <<>>, 1).devices
    /\ locations = SeedFrom(<<>>, <<>>, 1).locations
    /\ values = <<>>
    /\ thread = 1
    /\ tpc = [t \in Threads |-> IF t = 1 THEN "top" ELSE "unborn"]
    /\ texc = [t \in Threads |-> "none"]
    /\ cpc = "idle"
    /\ seedIdx = Len(Seeds) + 1
    /\ cjoin = None
    /\ cexc = "none"
    /\ nstarts = 1
    /\ call = [p \in Procs |-> NoCall]

IngestNext ==
    \/ (thread # None /\ StopRequest)
    \/ StopJoin
    \/ \E t \in Threads : Poll(t)
    \/ \E c \in 1..MaxCalls : ExtAddValue(c) \/ ExtTypeValueStep(c)

IngestSpec == IngestInit /\ [][IngestNext]_vars

------------------------------------------------------------------------------
(* Specification StoreSpec: the store alone under NumCallers concurrent     *)
(* callers, from the state in which start() has seeded it and stop() has   *)
(* ended the polling thread before it read a frame.                        *)

StoreInit ==
    /\ valueTypes = <<>>
    /\ devices = SeedFrom(<<>>, <<>>, 1).devices
    /\ locations = SeedFrom(<<>>, <<>>, 1).locations
    /\ values = <<>>
    /\ thread = None
    /\ tpc = [t \in Threads |-> IF t = 1 THEN "dead" ELSE "unborn"]
    /\ texc = [t \in Threads |-> "none"]
    /\ cpc = "idle"
    /\ seedIdx = Len(Seeds) + 1
    /\ cjoin = 1
    /\ cexc = "none"
    /\ nstarts = 1
    /\ call = [p \in Procs |-> NoCall]

StoreNext ==
    \E c \in 1..NumCallers :
        \/ ExtAddValue(c)
        \/ ExtUpsertValueType(c)
        \/ ExtUpsertDevice(c)
        \/ ExtUpsertLocation(c)
        \/ ExtTypeValueStep(c)
        \/ ExtDeviceStep(c)
        \/ ExtLocationStep(c)

StoreSpec == StoreInit /\ [][StoreNext]_vars

------------------------------------------------------------------------------
(* Specification SerialSpec: one caller of the seeded store that makes its  *)
(* calls one after the other, each call returning before the next is made. *)

SerialTypeIdArgs == TypeIdArgs \cup {PyNone, PyStr("2")}

\* the caller's call has returned; it is free to make the next one
ExtReturn(c) ==
    /\ call[<<"c", c>>].pc = "done"
    /\ call' = [call EXCEPT ![<<"c", c>>] = NoCall]
    /\ UNCHANGED <<valueTypes, devices, locations, values>>
    /\ UNCHANGED readerVars

\* the caller enters add_or_update_value_type, with or without an id
SerialUpsertValueType(c) ==
    /\ call[<<"c", c>>].pc = "idle"
    /\ \E id \in SerialTypeIdArgs, name \in TypeNames, unit \in TypeUnits :
         /\ id = PyNone => Cardinality(DOMAIN valueTypes) < MaxTypes
         /\ call' = [call EXCEPT ![<<"c", c>>] = UpsertValueTypeCall(id, name, unit)]
    /\ UNCHANGED <<valueTypes, devices, locations, values>>
    /\ UNCHANGED readerVars

\* the caller enters add_or_update_device
SerialUpsertDevice(c) ==
    /\ call[<<"c", c>>].pc = "idle"
    /\ \E id \in DeviceIdArgs, name \in DeviceNames, loc \in DeviceLocArgs :
         /\ SelectDevice(devices, id) = <<>> => Len(devices) < MaxDevices
         /\ call' = [call EXCEPT ![<<"c", c>>] = UpsertDeviceCall(name, "", loc, id)]
    /\ UNCHANGED <<valueTypes, devices, locations, values>>
    /\ UNCHANGED readerVars

\* the caller enters get_value_type (main.py:48)
ExtGetValueType(c) ==
    /\ call[<<"c", c>>].pc = "idle"
    /\ \E id \in TypeIdArgs :
         call' = [call EXCEPT ![<<"c", c>>] = GetValueTypeCall(id)]
    /\ UNCHANGED <<valueTypes, devices, locations, values>>
    /\ UNCHANGED readerVars

\* the caller's get_value_type
ExtGetValueTypeStep(c) ==
    /\ StepGetValueType(<<"c", c>>)
    /\ UNCHANGED readerVars

SerialNext ==
    \/ ExtAddValue(1)
    \/ SerialUpsertValueType(1)
    \/ SerialUpsertDevice(1)
    \/ ExtGetValueType(1)
    \/ ExtTypeValueStep(1)
    \/ ExtDeviceStep(1)
    \/ ExtGetValueTypeStep(1)
    \/ ExtReturn(1)

SerialSpec == StoreInit /\ [][SerialNext]_vars

------------------------------------------------------------------------------
(* Specification QuerySpec: get_values on a store that add_value calls have *)
(* filled: up to MaxQueryRows Value rows of distinct keys, their ValueTypes *)
(* stored.                                                                  *)

QueryTimes == {1, 2, 3}
QueryTypes == {1, 2}
QueryFilters == {PyNone, PyInt(1), PyInt(2), PyInt(3)}

QueryRows ==
    [time : QueryTimes, value : {0}, value_type_id : QueryTypes, device_id : {1}]

QueryTables ==
    UNION {{o \in [1..n -> QueryRows] :
              \A a, b \in 1..n : a # b => ValueKey(o[a]) # ValueKey(o[b])}
           : n \in 0..MaxQueryRows}

QueryInit ==
    /\ devices = SeedFrom(<<>>, <<>>, 1).devices
    /\ locations = SeedFrom(<<>>, <<>>, 1).locations
    /\ thread = None
    /\ tpc = [t \in Threads |-> IF t = 1 THEN "dead" ELSE "unborn"]
    /\ texc = [t \in Threads |-> "none"]
    /\ cpc = "idle"
    /\ seedIdx = Len(Seeds) + 1
    /\ cjoin = 1
    /\ cexc = "none"
    /\ nstarts = 1
    /\ call = [p \in Procs |-> NoCall]
    /\ values \in QueryTables
    /\ valueTypes = [k \in {values[i].value_type_id : i \in DOMAIN values} |->
                        [type_name |-> "TYPE_" \o ToString(k),
                         type_unit |-> "UNIT_" \o ToString(k)]]

\* a caller enters get_values (main.py:90)
ExtGetValues(c) ==
    /\ call[<<"c", c>>].pc = "idle"
    /\ \E type_id \in QueryFilters, start \in QueryFilters, end \in QueryFilters :
         call' = [call EXCEPT ![<<"c", c>>] = GetValuesCall(type_id, start, end)]
    /\ UNCHANGED <<valueTypes, devices, locations, values>>
    /\ UNCHANGED readerVars

\* the caller's get_values
ExtGetValuesStep(c) ==
    /\ StepGetValues(<<"c", c>>)
    /\ UNCHANGED readerVars

QueryNext ==
    \/ ExtGetValues(1)
    \/ ExtGetValuesStep(1)
    \/ ExtReturn(1)

QuerySpec == QueryInit /\ [][QueryNext]_vars

------------------------------------------------------------------------------
(* Specification MisuseSpec: the Reader on an empty store with a caller    *)
(* that calls start() and stop() in any order, one call at a time.         *)

MisuseNext ==
    \/ StartCall
    \/ StartSeed
    \/ StartLaunch
    \/ StopRequest
    \/ StopJoin
    \/ \E t \in Threads : Poll(t)

MisuseSpec == Init /\ [][MisuseNext]_vars

------------------------------------------------------------------------------
(* Specification ShortSpec: as IngestSpec without external callers, the    *)
(* device yielding short reads beside whole frames.                        *)

ShortPoll(t) ==
    \/ PollTop(t)
    \/ PollReadFrom(t, Frames \cup ShortFrames)
    \/ PollStore(t)

ShortNext ==
    \/ (thread # None /\ StopRequest)
    \/ StopJoin
    \/ \E t \in Threads : ShortPoll(t)

ShortSpec == IngestInit /\ [][ShortNext]_vars

------------------------------------------------------------------------------
(* Specification DecodeSpec: one iteration of the polling thread that has  *)
(* read a 16-byte frame, any of DecodeBuffers, and decodes its integer     *)
(* fields (reader.py:44-49).                                                *)

\* the frames whose first twelve bytes are each 0 or 255, and three frames
\* of mixed bytes
DecodeBuffers ==
    {[i \in 1..16 |-> IF i \in S THEN 255 ELSE 0] : S \in SUBSET (1..12)}
       \cup {[i \in 1..16 |-> i], [i \in 1..16 |-> 144 - 8 * i],
             [i \in 1..16 |-> IF i % 2 = 1 THEN 128 ELSE 1]}

DecodeInit ==
    /\ valueTypes = <<>>
    /\ devices = SeedFrom(<<>>, <<>>, 1).devices
    /\ locations = SeedFrom(<<>>, <<>>, 1).locations
    /\ values = <<>>
    /\ thread = 1
    /\ tpc = [t \in Threads |-> IF t = 1 THEN "read" ELSE "unborn"]
    /\ texc = [t \in Threads |-> "none"]
    /\ cpc = "idle"
    /\ seedIdx = Len(Seeds) + 1
    /\ cjoin = None
    /\ cexc = "none"
    /\ nstarts = 1
    /\ \E test \in DecodeBuffers :
         call = [p \in Procs |-> IF p = <<"t", 1>>
                                 THEN [NoCall EXCEPT !.frame = test] ELSE NoCall]

\* lines 44-49: value_time and type_num are computed from `test`
DecodeFrame(t) ==
    /\ tpc[t] = "read"
    /\ call[<<"t", t>>].rows = <<>>
    /\ call' = [call EXCEPT ![<<"t", t>>].rows =
                   <<[value_time |-> OrShift(call[<<"t", t>>].frame, 0, 8),
                      type_num |-> OrShift(call[<<"t", t>>].frame, 8, 4)]>>]
    /\ UNCHANGED <<valueTypes, devices, locations, values>>
    /\ UNCHANGED readerVars

DecodeNext == \E t \in Threads : DecodeFrame(t)

DecodeSpec == DecodeInit /\ [][DecodeNext]_vars

------------------------------------------------------------------------------
(* Properties *)

Alive(t) == tpc[t] \notin {"unborn", "dead"}

\* C1 (FairSpec): a stop() that follows a start() returns; it returns only
\* once the thread it joins has ended; when the caller holds no thread (before
\* the first start() and after every stop()) no polling thread is alive; and
\* a start() is then possible and launches a thread that was not running.
C1_LoopLifecycle ==
    /\ (cpc = "join") ~> (cpc = "idle")
    /\ [][(cpc = "join" /\ cpc' = "idle") => tpc[cjoin] = "dead"]_vars
    /\ []((cpc = "idle" /\ thread = None) => \A t \in Threads : ~Alive(t))
    /\ []((cpc = "idle" /\ thread = None /\ nstarts < MaxStarts) => ENABLED StartCall)
    /\ [][(cpc = "launch" /\ cpc' = "idle") =>
            /\ thread' # None
            /\ tpc[thread'] = "unborn"
            /\ tpc'[thread'] = "top"]_vars

\* start(), stop() with no frame processed, start() again: the second thread
\* runs, the first has ended
C1_Witness ==
    /\ nstarts = 2 /\ thread = 2 /\ tpc[2] = "top" /\ tpc[1] = "dead"
    /\ values = <<>>

\* the step that process p is about to take raises IntegrityError: its Value
\* row collides with a stored one, or the ValueType it is about to insert has
\* been committed by another session since it looked
Failing(p) ==
    \/ /\ call[p].pc = "insert"
       /\ UniqueConflict(values, ValueRow(call[p]))
    \/ /\ call[p].pc = "vt_commit"
       /\ call[p].snap = <<>>
       /\ SqlInt(call[p].id) \in DOMAIN valueTypes

\* C2 (IngestSpec): when the add_value call of a polling thread fails with
\* IntegrityError the thread ends without an unhandled exception, and an
\* ended thread never runs again (no further frame, no further add_value);
\* the same failure in an external caller's add_value is the caller's result.
C2_TerminationOnExhaustion ==
    [][/\ \A t \in Threads :
            /\ (Failing(<<"t", t>>) /\ call'[<<"t", t>>] # call[<<"t", t>>])
                  => (tpc'[t] = "dead" /\ texc'[t] = "none")
            /\ tpc[t] = "dead"
                  => (tpc'[t] = "dead" /\ call'[<<"t", t>>] = call[<<"t", t>>])
       /\ \A c \in 1..MaxCalls :
            (Failing(<<"c", c>>) /\ call'[<<"c", c>>] # call[<<"c", c>>])
                  => /\ call'[<<"c", c>>].pc = "done"
                     /\ call'[<<"c", c>>].result = "IntegrityError"
                     /\ values' = values
      ]_vars

\* a thread ended by IntegrityError while the Reader still holds it, and an
\* external add_value that got IntegrityError
C2_Witness ==
    /\ \E t \in Threads : /\ tpc[t] = "dead" /\ thread = t
                          /\ call[<<"t", t>>].result = "IntegrityError"
    /\ \E c \in 1..MaxCalls : call[<<"c", c>>].result = "IntegrityError"

C7_SeederIdempotent ==
    /\ []((cpc = "launch" /\ nstarts = 0) =>
            /\ DOMAIN locations = 1..3
            /\ DOMAIN devices = 1..4
            /\ \A d \in DOMAIN devices : devices[d].location_id \in 1..3
            /\ \A d \in DOMAIN devices : devices[d].device_name = Seeds[3 + d].name
            /\ \A l \in DOMAIN locations : locations[l].location_name = Seeds[l].name)
    /\ [][(nstarts >= 1 /\ cpc = "seed") =>
            (devices' = devices /\ locations' = locations)]_vars

\* the second start() has run all its seeding calls
C7_Witness ==
    /\ nstarts = 1 /\ cpc = "launch"
    /\ Len(locations) = 3 /\ Len(devices) = 4

\* C8 (Spec): once a polling thread exists all seeding calls have committed
\* (three Locations, four Devices at least), a thread about to choose a device
\* finds get_devices() non-empty, and no thread has ended with the IndexError
\* of random.choice on an empty list.
C8_SeedBeforeLoop ==
    /\ (\E t \in Threads : tpc[t] # "unborn")
          => (Len(locations) >= 3 /\ Len(devices) >= 4)
    /\ \A t \in Threads : tpc[t] = "read" => Len(devices) > 0
    /\ \A t \in Threads : texc[t] # "IndexError"

\* a polling thread has chosen a device and is inside add_value
C8_Witness ==
    \E t \in Threads : tpc[t] = "store" /\ call[<<"t", t>>].device \in DOMAIN devices

\* the callers of StoreSpec whose call is of kind op
CallersOf(op) == {c \in 1..NumCallers : call[<<"c", c>>].op = op}

\* the (device, type, time) an add_value call was made with
CallKey(c) == <<call[<<"c", c>>].device, SqlInt(call[<<"c", c>>].id),
                call[<<"c", c>>].time>>

\* C3 (StoreSpec), as claimed: when the only calls made are add_value calls
\* with pairwise distinct (device, type, time) and all have returned, every
\* one succeeded and exactly that many Value rows are stored.
C3_DistinctAddValuesAllSucceed ==
    LET AV == CallersOf("add_value")
    IN  (/\ AV # {}
         /\ \A c \in 1..NumCallers : c \in AV \/ call[<<"c", c>>].op = "none"
         /\ \A c \in AV : call[<<"c", c>>].pc = "done"
         /\ \A c, d \in AV : c # d => CallKey(c) # CallKey(d))
        => /\ \A c \in AV : call[<<"c", c>>].result = "ok"
           /\ Len(values) = Cardinality(AV)
           /\ \A i, j \in DOMAIN values :
                 i # j => ValueKey(values[i]) # ValueKey(values[j])

\* the value_type table after the whole call of caller c runs alone on vts
UpsertValueTypeAlone(vts, c) ==
    LET cl == call[<<"c", c>>]
        snap == SelectValueType(vts, cl.id)
        obj == PendingValueType(snap, cl.id, cl.name, cl.unit)
    IN  CommitValueType(vts, snap, cl.id,
            [type_name |-> obj.type_name, type_unit |-> obj.type_unit]).vts

\* the table after the calls order[i], order[i+1], ... run one after the other
RECURSIVE SerialFrom(_, _, _)
SerialFrom(vts, order, i) ==
    IF i > Len(order) THEN vts
    ELSE SerialFrom(UpsertValueTypeAlone(vts, order[i]), order, i + 1)

\* C4 (StoreSpec), as claimed: when the only calls made are two or more
\* add_or_update_value_type calls on one id and all have returned, every one
\* returned successfully and the table is what running them one after the
\* other in some order leaves (one row with that id, the last committer's
\* fields).
C4_UpsertValueTypeSerializes ==
    LET UV == CallersOf("upsert_value_type")
    IN  (/\ Cardinality(UV) >= 2
         /\ \A c \in 1..NumCallers : c \in UV \/ call[<<"c", c>>].op = "none"
         /\ \A c \in UV : call[<<"c", c>>].pc = "done"
         /\ \A c, d \in UV : call[<<"c", c>>].id = call[<<"c", d>>].id)
        => /\ \A c \in UV : call[<<"c", c>>].result = "ok"
           /\ \E o \in Orders(UV) : valueTypes = SerialFrom(<<>>, o, 1)

\* C5 (StoreSpec), as claimed: for every (device, type, time), once all
\* add_value calls made with it have returned (two or more of them), exactly
\* one of them succeeded, every other failed with IntegrityError, and exactly
\* one Value row with that key is stored.
C5_SameKeyExactlyOneSucceeds ==
    \A c \in CallersOf("add_value") :
        LET S == {d \in CallersOf("add_value") : CallKey(d) = CallKey(c)}
        IN  (Cardinality(S) >= 2 /\ \A d \in S : call[<<"c", d>>].pc = "done")
            => /\ Cardinality({d \in S : call[<<"c", d>>].result = "ok"}) = 1
               /\ \A d \in S : call[<<"c", d>>].result \in {"ok", "IntegrityError"}
               /\ Cardinality({i \in DOMAIN values :
                                  ValueKey(values[i]) = CallKey(c)}) = 1

\* C9 (StoreSpec), as claimed: add_or_update_device / add_or_update_location
\* called with an id no row of that kind holds adds one row whose id is the
\* given id and returns it; called with the id of a stored row it adds no row,
\* leaves every other row as it was, and returns that id.
C9_UpsertKeyedById ==
    [][\A c \in 1..NumCallers :
         LET p == <<"c", c>>
             id == SqlInt(call[p].id)
         IN  /\ (call[p].pc = "dev" /\ call'[p].pc = "done" /\ id # Null) =>
                   /\ call'[p].ret = id
                   /\ \A j \in DOMAIN devices \ {id} : devices'[j] = devices[j]
                   /\ IF id \in DOMAIN devices
                      THEN Len(devices') = Len(devices)
                      ELSE Len(devices') = Len(devices) + 1 /\ id \in DOMAIN devices'
             /\ (call[p].pc = "loc" /\ call'[p].pc = "done" /\ id # Null) =>
                   /\ call'[p].ret = id
                   /\ \A j \in DOMAIN locations \ {id} : locations'[j] = locations[j]
                   /\ IF id \in DOMAIN locations
                      THEN Len(locations') = Len(locations)
                      ELSE /\ Len(locations') = Len(locations) + 1
                           /\ id \in DOMAIN locations'
      ]_vars

\* C10 (StoreSpec), as claimed: add_or_update_location called with the id of
\* a stored Location and a non-empty name and/or description leaves that
\* row's location_name / location_description equal to the non-empty values
\* supplied, and adds or changes no other Location row.
C10_UpsertLocationUpdates ==
    [][\A c \in 1..NumCallers :
         LET p == <<"c", c>>
             id == SqlInt(call[p].id)
         IN  (/\ call[p].pc = "loc" /\ call'[p].pc = "done"
              /\ id \in DOMAIN locations
              /\ (call[p].name # "" \/ call[p].unit # "")) =>
                /\ Len(locations') = Len(locations)
                /\ \A j \in DOMAIN locations \ {id} : locations'[j] = locations[j]
                /\ call[p].name # "" => locations'[id].location_name = call[p].name
                /\ call[p].unit # "" =>
                       locations'[id].location_description = call[p].unit
      ]_vars


\* the ValueType row add_or_update_value_type creates for id k when it is
\* given no name and no unit
DefaultValueType(k) ==
    [type_name |-> "TYPE_" \o ToString(k), type_unit |-> "UNIT_" \o ToString(k)]

\* C11 (SerialSpec): add_value for a type id with no ValueType row stores
\* exactly the row (id, "TYPE_<id>", "UNIT_<id>") beside the rows there were,
\* and then exactly one Value row, with the arguments of the call; add_value
\* for a stored ValueType leaves the table as it was; and get_value_type of a
\* stored id returns that id with the name and unit the table holds.
C11_AutocreateDefault ==
    [][LET p == <<"c", 1>>
           k == SqlInt(call[p].id)
       IN  /\ (call[p].op = "add_value" /\ call[p].pc = "vt_commit") =>
                 IF k \in DOMAIN valueTypes
                 THEN valueTypes' = valueTypes
                 ELSE /\ DOMAIN valueTypes' = DOMAIN valueTypes \cup {k}
                      /\ valueTypes'[k] = DefaultValueType(k)
                      /\ \A j \in DOMAIN valueTypes : valueTypes'[j] = valueTypes[j]
                      /\ call'[p].pc = "insert"
           /\ (call[p].op = "add_value" /\ call[p].pc = "insert"
                  /\ call[p].snap = <<>>) =>
                 /\ values' = Append(values, [time |-> call[p].time,
                                               value |-> call[p].value,
                                               value_type_id |-> k,
                                               device_id |-> call[p].device])
                 /\ call'[p].result = "ok"
                 /\ valueTypes' = valueTypes
           /\ (call[p].op = "get_value_type" /\ call[p].pc = "get_vt"
                  /\ k \in DOMAIN valueTypes) =>
                 /\ call'[p].result = "ok"
                 /\ call'[p].rows = <<[id |-> k,
                                       type_name |-> valueTypes[k].type_name,
                                       type_unit |-> valueTypes[k].type_unit]>>
      ]_vars

\* get_value_type(1) has returned the placeholder row while a Value of type 1
\* is stored
C11_Witness ==
    /\ call[<<"c", 1>>].op = "get_value_type" /\ call[<<"c", 1>>].pc = "done"
    /\ call[<<"c", 1>>].rows = <<[id |-> 1, type_name |-> "TYPE_1",
                                  type_unit |-> "UNIT_1"]>>
    /\ \E i \in DOMAIN values : values[i].value_type_id = 1


\* C12 (SerialSpec): add_or_update_value_type on a stored id sets type_name /
\* type_unit to the non-empty values supplied and keeps the stored value of a
\* field supplied empty (no placeholder replaces it); a new row gets the
\* supplied value or the placeholder; add_or_update_device on a stored id sets
\* device_name / device_description / location_id to the truthy values
\* supplied and keeps the others; in each case no other row changes and no
\* row is added to an existing id.
C12_PartialUpdate ==
    [][LET p == <<"c", 1>>
           c == call[p]
           k == SqlInt(c.id)
       IN  /\ (c.op = "upsert_value_type" /\ c.pc = "vt_commit"
                  /\ k \in DOMAIN valueTypes) =>
                 /\ DOMAIN valueTypes' = DOMAIN valueTypes
                 /\ \A j \in DOMAIN valueTypes \ {k} : valueTypes'[j] = valueTypes[j]
                 /\ valueTypes'[k].type_name =
                        IF c.name # "" THEN c.name ELSE valueTypes[k].type_name
                 /\ valueTypes'[k].type_unit =
                        IF c.unit # "" THEN c.unit ELSE valueTypes[k].type_unit
           /\ (c.op = "upsert_value_type" /\ c.pc = "vt_commit"
                  /\ k # Null /\ k \notin DOMAIN valueTypes) =>
                 /\ DOMAIN valueTypes' = DOMAIN valueTypes \cup {k}
                 /\ \A j \in DOMAIN valueTypes : valueTypes'[j] = valueTypes[j]
                 /\ valueTypes'[k].type_name =
                        IF c.name # "" THEN c.name ELSE DefaultValueType(k).type_name
                 /\ valueTypes'[k].type_unit =
                        IF c.unit # "" THEN c.unit ELSE DefaultValueType(k).type_unit
           /\ (c.op = "upsert_device" /\ c.pc = "dev" /\ k \in DOMAIN devices) =>
                 /\ Len(devices') = Len(devices)
                 /\ \A j \in DOMAIN devices \ {k} : devices'[j] = devices[j]
                 /\ devices'[k].device_name =
                        IF c.name # "" THEN c.name ELSE devices[k].device_name
                 /\ devices'[k].device_description =
                        IF c.unit # "" THEN c.unit ELSE devices[k].device_description
                 /\ devices'[k].location_id =
                        IF Truthy(c.loc) THEN SqlInt(c.loc) ELSE devices[k].location_id
      ]_vars

\* add_or_update_value_type has returned from a stored row named "A" that it
\* was given a unit for and no name, while a Device keeps its location under
\* a new name
C12_Witness ==
    LET c == call[<<"c", 1>>]
    IN  /\ c.op = "upsert_value_type" /\ c.pc = "done" /\ c.result = "ok"
        /\ c.snap # <<>> /\ c.name = "" /\ c.unit = "U"
        /\ c.snap[1].type_unit # "U"
        /\ valueTypes[c.key] = [type_name |-> "A", type_unit |-> "U"]
        /\ devices[1].device_name = "D" /\ devices[1].location_id = 1


\* add_or_update_value_type(id, name, unit) run alone on the table vts
\* (crud.py:35-52): the table it leaves and its outcome
UpsertValueTypeRun(vts, id, name, unit) ==
    LET snap == SelectValueType(vts, id)
        obj == PendingValueType(snap, id, name, unit)
        r == CommitValueType(vts, snap, id,
                 [type_name |-> obj.type_name, type_unit |-> obj.type_unit])
    IN  IF obj.exc # "none" THEN [vts |-> vts, result |-> obj.exc]
        ELSE [vts |-> r.vts, result |-> r.result]

\* C13 (SerialSpec): from every table the store reaches and for every id,
\* name and unit, add_or_update_value_type called twice with these arguments
\* leaves after the second call the table the first call left, with the same
\* outcome; after a successful call the id holds one row, and the rows of the
\* other ids are those there were.
C13_UpsertIdempotent ==
    \A id \in SerialTypeIdArgs \ {PyNone}, name \in TypeNames, unit \in TypeUnits :
        LET first == UpsertValueTypeRun(valueTypes, id, name, unit)
            second == UpsertValueTypeRun(first.vts, id, name, unit)
        IN  /\ second.vts = first.vts
            /\ second.result = first.result
            /\ first.result = "ok" =>
                  /\ DOMAIN first.vts = DOMAIN valueTypes \cup {SqlInt(id)}
                  /\ \A j \in DOMAIN valueTypes \ {SqlInt(id)} :
                        first.vts[j] = valueTypes[j]

\* add_or_update_value_type has returned from a call that found the row as a
\* call with the same name and unit leaves it
C13_Witness ==
    LET c == call[<<"c", 1>>]
    IN  /\ c.op = "upsert_value_type" /\ c.pc = "done" /\ c.result = "ok"
        /\ c.name = "A" /\ c.unit = "U"
        /\ c.snap = <<[type_name |-> "A", type_unit |-> "U"]>>
        /\ valueTypes[c.key] = [type_name |-> "A", type_unit |-> "U"]


\* C14 (SerialSpec), as claimed: add_or_update_value_type called without an
\* id, whatever name and unit it is given, returns InvalidArgument, and no
\* step of such a call adds or changes a ValueType row.
C14_UpsertWithoutIdRejected ==
    [][LET p == <<"c", 1>>
       IN  (call[p].op = "upsert_value_type" /\ call[p].id = PyNone) =>
              /\ valueTypes' = valueTypes
              /\ (call[p].pc # "done" /\ call'[p].pc = "done") =>
                     call'[p].result = "InvalidArgument"
      ]_vars


\* C15 (QuerySpec): get_values(type_id, start, end) returns without error a
\* list that holds each stored Value row with value_type_id = type_id,
\* time >= start and time <= end (a condition whose argument is omitted left
\* out) exactly once, with the fields stored, and no other row, in ascending
\* order of time; when no row matches the list is empty.
C15_GetValuesFilters ==
    [][LET p == <<"c", 1>>
           c == call[p]
           rows == call'[p].rows
           Match == {i \in DOMAIN values :
                       /\ c.id # PyNone => values[i].value_type_id = c.id[2]
                       /\ c.start # PyNone => values[i].time >= c.start[2]
                       /\ c.end # PyNone => values[i].time <= c.end[2]}
       IN  (c.op = "get_values" /\ c.pc = "get_vals") =>
              /\ call'[p].pc = "done" /\ call'[p].result = "ok"
              /\ Len(rows) = Cardinality(Match)
              /\ {rows[j].id : j \in DOMAIN rows} = Match
              /\ \A j \in DOMAIN rows :
                    /\ rows[j].time = values[rows[j].id].time
                    /\ rows[j].value = values[rows[j].id].value
                    /\ rows[j].value_type_id = values[rows[j].id].value_type_id
                    /\ rows[j].device_id = values[rows[j].id].device_id
              /\ \A a, b \in DOMAIN rows : a < b => rows[a].time <= rows[b].time
              /\ Match = {} => rows = <<>>
      ]_vars

\* get_values(1, 2, 2) has returned one row of a table that also holds a row
\* of type 1 outside the range and a row of type 2 inside it
C15_Witness ==
    LET c == call[<<"c", 1>>]
    IN  /\ c.op = "get_values" /\ c.pc = "done"
        /\ c.id = PyInt(1) /\ c.start = PyInt(2) /\ c.end = PyInt(2)
        /\ Len(c.rows) = 1 /\ c.rows[1].time = 2 /\ c.rows[1].value_type_id = 1
        /\ \E i \in DOMAIN values : values[i].value_type_id = 1 /\ values[i].time = 3
        /\ \E i \in DOMAIN values : values[i].value_type_id = 2 /\ values[i].time = 2


\* C16 (MisuseSpec), as claimed: no stop() ends with an error other than
\* NotRunning (a stop() called while the Reader holds no thread does nothing
\* or fails with NotRunning), and a stop() that waits in join() waits for a
\* thread that was started, one it has not joined before.
C16_StopWhenNotRunning ==
    /\ cexc \in {"none", "NotRunning"}
    /\ cpc = "join" => (cjoin # None /\ tpc[cjoin] # "unborn")


\* C17 (MisuseSpec), as claimed: at most one polling thread is alive, and an
\* alive thread is the one the Reader holds or the one stop() is joining (a
\* start() made while a thread runs launches no second one and leaves none
\* behind un-joined).
C17_SinglePollingTask ==
    /\ Cardinality({t \in Threads : Alive(t)}) <= 1
    /\ \A t \in Threads :
          Alive(t) => (thread = t \/ (cpc = "join" /\ cjoin = t))


\* C18 (ShortSpec), as claimed: a polling thread is never inside add_value
\* with values decoded from a read of fewer than 16 bytes, and a thread that
\* such a read ended was ended by FrameTooShort.
C18_ShortFrameRejected ==
    \A t \in Threads :
        LET c == call[<<"t", t>>]
        IN  /\ c.op = "add_value" => Len(c.frame) = 16
            /\ (tpc[t] = "dead" /\ Len(c.frame) < 16 /\ texc[t] # "none")
                  => texc[t] = "FrameTooShort"


\* C19 (FairSpec): once stop() has cleared self._thread, a polling thread at
\* the loop top only leaves the loop (it begins no iteration); a thread that
\* was past the loop top is not interrupted: from the read it goes on to
\* add_value, from add_value to the loop top (or out of the loop on an
\* error), and it does get there; so it enters add_value at most once more
\* before it ends.
C19_CooperativeCancellation ==
    /\ [][\A t \in Threads :
            thread = None =>
               /\ tpc[t] = "top" => tpc'[t] \in {"top", "dead"}
               /\ tpc[t] = "read" => tpc'[t] \in {"read", "store"}
               /\ tpc[t] = "store" => tpc'[t] \in {"store", "top", "dead"}
               /\ (tpc[t] = "store" /\ tpc'[t] = "dead") =>
                      call'[<<"t", t>>].result # "ok"
          ]_vars
    /\ \A t \in Threads :
          (thread = None /\ tpc[t] \in {"read", "store"})
             ~> (tpc[t] \in {"top", "dead"} /\ call[<<"t", t>>].result # "none")

\* stop() waits in join() while the thread it stopped is inside add_value,
\* about to commit its Value
C19_Witness ==
    /\ cpc = "join" /\ thread = None
    /\ tpc[cjoin] = "store" /\ call[<<"t", cjoin>>].pc = "insert"


\* C20 (DecodeSpec): for every 16-byte frame b the decoded time is the sum
\* over i in 0..7 of b[i] * 256^i and the decoded type the sum over i in 0..3
\* of b[8 + i] * 256^i (each sum written in base 65536: digit k is
\* b[2k] + 256 * b[2k + 1]); decoding the same bytes again gives the same
\* two numbers; and where the sum is below 2^31 the integers the model stores
\* are that sum.
C20_IntegerFieldsLittleEndian ==
    \A t \in Threads :
        LET c == call[<<"t", t>>]
            b == c.frame
        IN  c.rows # <<>> =>
              /\ \A k \in 1..4 :
                    c.rows[1].value_time[k] = b[2 * k - 1] + 256 * b[2 * k]
              /\ \A k \in 1..2 :
                    c.rows[1].type_num[k] = b[8 + 2 * k - 1] + 256 * b[8 + 2 * k]
              /\ \A k \in 3..4 : c.rows[1].type_num[k] = 0
              /\ c.rows[1].value_time = OrShift(b, 0, 8)
              /\ c.rows[1].type_num = OrShift(b, 8, 4)
              /\ (b[4] < 128 /\ \A i \in 5..8 : b[i] = 0) =>
                    DecodeTime(b) = b[1] + 256 * b[2] + 65536 * b[3] + 16777216 * b[4]
              /\ b[12] < 128 =>
                    DecodeType(b) = b[9] + 256 * b[10] + 65536 * b[11] + 16777216 * b[12]

\* a frame whose time has its most significant byte set, and whose type is
\* not zero, has been decoded
C20_Witness ==
    \E t \in Threads :
        LET c == call[<<"t", t>>]
        IN  /\ c.rows # <<>>
            /\ c.frame[8] = 255 /\ c.frame[1] = 0 /\ c.frame[10] = 255
            /\ c.rows[1].value_time[4] = 65280
            /\ c.rows[1].type_num[1] = 65280


\* C21 (StoreSpec), as claimed: the step in which an add_value call fails
\* with IntegrityError adds no Value row and changes no ValueType row, and
\* the failing call has not itself created the ValueType (it is not a call
\* that found no row for its type, committed one and then failed on its
\* Value).
C21_FailedAddValueLeavesStore ==
    [][\A c \in 1..NumCallers :
         LET p == <<"c", c>>
         IN  (/\ call[p].op = "add_value"
              /\ call[p].pc # "done" /\ call'[p].pc = "done"
              /\ call'[p].result = "IntegrityError") =>
                /\ values' = values
                /\ valueTypes' = valueTypes
                /\ ~(call[p].pc = "insert" /\ call[p].snap = <<>>)
      ]_vars

==============================================================================
